---- MODULE Spec2Model ----
(***************************************************************************)
(* The Fiber lineage model of                                              *)
(* source/challenges/visualization/o4-mini-high/fiber.js.                  *)
(*                                                                         *)
(* A Fiber is a JavaScript object, so the model keeps a heap of objects    *)
(* addressed by references: `f` is the caller's variable holding the Fiber *)
(* built by `new Fiber(...)`, `ret` is the reference returned by the last  *)
(* call (what a chained call `.transform(...)` is applied to) and `out`    *)
(* is the string returned by the last call when that was exportLineage.    *)
(* `pre` and `preOut` are the caller's Fiber and `out` as they were before *)
(* the last call (a Fiber just created has no earlier state: pre is the    *)
(* Fiber itself); `shadow` is the Fiber the same calls give when each is   *)
(* made as a statement of its own.                                         *)
(* JSON.stringify is modelled by the token sequence of the text it writes  *)
(* (insignificant whitespace, which its indent argument adds, is left      *)
(* out).                                                                   *)
(***************************************************************************)
EXTENDS Integers, Sequences, FiniteSets, TLC

\* the Fiber class (fiber.js)
VARIABLES heap, f, ret, out, lastCall, nTransform, nAddMarker, nExport, shadow,
          pre, preOut
\* a call of filterFibers
VARIABLES filterCall
\* a Fiber, a WarpFiber and a WeftFiber given the same calls
VARIABLES trio, trioRet
\* a call of transcribeRawAudio
VARIABLES rawCall
\* the IntakeWidget component and its requests
VARIABLES widget, requests, sent, lastEvent
\* a FiberCard component
VARIABLES card
\* the animation: its fibers, its Weave and the position of its set-up
VARIABLES wfibers, weave, mainPc
\* a run of bootstrap_all.sh
VARIABLES boot
\* the intake store, the RecordButton and the transcription requests
VARIABLES store, transcribing, nClicks, storeEvent
\* the FiberCardViewer component with the store of the main app
VARIABLES viewer, fetchLog, viewEvent
\* the CoAuthorPanel component, its requests and the body of its last save
VARIABLES panel, coCalls, saved

fiberVars == <<heap, f, ret, out, lastCall, nTransform, nAddMarker, nExport,
               shadow, pre, preOut>>
filterVars == <<filterCall>>
classVars == <<trio, trioRet>>
whisperVars == <<rawCall>>
widgetVars == <<widget, requests, sent, lastEvent>>
cardVars == <<card>>
weaveVars == <<wfibers, weave, mainPc>>
bootVars == <<boot>>
storeVars == <<store, transcribing, nClicks, storeEvent>>
viewerVars == <<viewer, fetchLog, viewEvent>>
panelVars == <<panel, coCalls, saved>>

vars == <<fiberVars, filterVars, classVars, whisperVars, widgetVars, cardVars,
          weaveVars,
          bootVars,
          storeVars,
          viewerVars,
          panelVars>>

\* Each specification below runs one part of the repository; the variables of
\* the other parts are not in use and stay as they are.
NotInUse == <<>>

AllIdleBut(part) ==
  /\ IF part = "fiber" THEN TRUE
     ELSE /\ heap = NotInUse
          /\ f = NotInUse
          /\ ret = NotInUse
          /\ out = NotInUse
          /\ lastCall = NotInUse
          /\ nTransform = NotInUse
          /\ nAddMarker = NotInUse
          /\ nExport = NotInUse
          /\ shadow = NotInUse
          /\ pre = NotInUse
          /\ preOut = NotInUse
  /\ IF part = "filter" THEN TRUE
     ELSE /\ filterCall = NotInUse
  /\ IF part = "class" THEN TRUE
     ELSE /\ trio = NotInUse
          /\ trioRet = NotInUse
  /\ IF part = "whisper" THEN TRUE
     ELSE /\ rawCall = NotInUse
  /\ IF part = "widget" THEN TRUE
     ELSE /\ widget = NotInUse
          /\ requests = NotInUse
          /\ sent = NotInUse
          /\ lastEvent = NotInUse
  /\ IF part = "card" THEN TRUE
     ELSE /\ card = NotInUse
  /\ IF part = "weave" THEN TRUE
     ELSE /\ wfibers = NotInUse
          /\ weave = NotInUse
          /\ mainPc = NotInUse
  /\ IF part = "boot" THEN TRUE
     ELSE /\ boot = NotInUse
  /\ IF part = "store" THEN TRUE
     ELSE /\ store = NotInUse
          /\ transcribing = NotInUse
          /\ nClicks = NotInUse
          /\ storeEvent = NotInUse
  /\ IF part = "viewer" THEN TRUE
     ELSE /\ viewer = NotInUse
          /\ fetchLog = NotInUse
          /\ viewEvent = NotInUse
  /\ IF part = "panel" THEN TRUE
     ELSE /\ panel = NotInUse
          /\ coCalls = NotInUse
          /\ saved = NotInUse

UnchangedBut(part) ==
  /\ IF part = "fiber" THEN TRUE ELSE UNCHANGED fiberVars
  /\ IF part = "filter" THEN TRUE ELSE UNCHANGED filterVars
  /\ IF part = "class" THEN TRUE ELSE UNCHANGED classVars
  /\ IF part = "whisper" THEN TRUE ELSE UNCHANGED whisperVars
  /\ IF part = "widget" THEN TRUE ELSE UNCHANGED widgetVars
  /\ IF part = "card" THEN TRUE ELSE UNCHANGED cardVars
  /\ IF part = "weave" THEN TRUE ELSE UNCHANGED weaveVars
  /\ IF part = "boot" THEN TRUE ELSE UNCHANGED bootVars
  /\ IF part = "store" THEN TRUE ELSE UNCHANGED storeVars
  /\ IF part = "viewer" THEN TRUE ELSE UNCHANGED viewerVars
  /\ IF part = "panel" THEN TRUE ELSE UNCHANGED panelVars

\* ------------------------------------------------------------------ bounds
MaxHistory == 3     \* transform is not called on a history of this length
MaxMarkers == 2     \* addMarker is not called on this many markers
MaxExport == 2      \* at most this many exportLineage calls in a row
NumRefs == 3        \* object references the heap can hand out

\* ------------------------------------------------------------------ inputs
Ids == {"f0", "w1"}
Colors == {"gold", "lightgreen"}
Stages == {"spin", "weft"}
Contexts == {"shuttle"}
MarkerTypes == {"violet", "knot"}

Undefined == "<undefined>"   \* an omitted argument
Null == "<null>"             \* the JavaScript value null

Refs == 1..NumRefs
NoRef == 0                   \* the last call returned no object

\* ------------------------------------------------------------- the class
\* a constructor that ignores colorStart
constructor_alwaysGold(id, colorStart) ==
  [id |-> id,
   color |-> "gold",
   history |-> <<[stage |-> "start", color |-> "gold"]>>,
   markers |-> <<>>]

\* constructor(id, colorStart = 'gold')
constructor(id, colorStart) ==
  LET color == IF colorStart = Undefined THEN "gold" ELSE colorStart
  IN  [id |-> id,
       color |-> color,
       history |-> <<[stage |-> "start", color |-> color]>>,
       markers |-> <<>>]

\* `new`: a reference no live object has
Fresh(h) == CHOOSE r \in Refs : r \notin DOMAIN h

\* the entry a transform call records
Entry(type, color, context) ==
  [stage |-> type, color |-> color,
   context |-> IF context = Undefined THEN Null ELSE context]

\* a transform that records the entry and forgets this.color
transform_keepsColor(h, this, type, color, context) ==
  [heap |-> [h EXCEPT ![this].history = Append(@, Entry(type, color, context))],
   ret |-> this]

\* a transform that writes the entry over the last one
transform_overwrites(h, this, type, color, context) ==
  [heap |-> [h EXCEPT ![this].color = color,
                      ![this].history =
                         [@ EXCEPT ![Len(@)] = Entry(type, color, context)]],
   ret |-> this]

\* a transform that puts the entry first (unshift for push)
transform_prepends(h, this, type, color, context) ==
  [heap |-> [h EXCEPT ![this].color = color,
                      ![this].history = <<Entry(type, color, context)>> \o @],
   ret |-> this]

\* a transform that assigns the label to this.id as well
transform_setsId(h, this, type, color, context) ==
  [heap |-> [h EXCEPT ![this].id = color,
                      ![this].color = color,
                      ![this].history = Append(@, Entry(type, color, context))],
   ret |-> this]

\* a transform that returns a copy of the Fiber it changed
transform_returnsCopy(h, this, type, color, context) ==
  LET changed == [h EXCEPT ![this].color = color,
                           ![this].history =
                              Append(@, Entry(type, color, context))]
      copy == Fresh(h)
  IN  [heap |-> changed @@ (copy :> changed[this]), ret |-> copy]

\* a transform that throws when no context is given: nothing is changed and
\* nothing is returned
transform_requiresContext(h, this, type, color, context) ==
  IF context = Undefined
    THEN [heap |-> h, ret |-> NoRef]
    ELSE [heap |-> [h EXCEPT ![this].color = color,
                             ![this].history =
                                Append(@, Entry(type, color, context))],
          ret |-> this]

\* transform(type, color, context = null), on the object `this` of heap h
transform(h, this, type, color, context) ==
  [heap |-> [h EXCEPT ![this].color = color,
                      ![this].history = Append(@, Entry(type, color, context))],
   ret |-> this]

\* an addMarker that records the marker in the history too
addMarker_inHistory(h, this, markerType) ==
  [heap |-> [h EXCEPT ![this].markers = Append(@, markerType),
                      ![this].history =
                         Append(@, [stage |-> "marker", color |-> h[this].color,
                                    context |-> markerType])],
   ret |-> this]

\* an addMarker that keeps markers a set
addMarker_unique(h, this, markerType) ==
  [heap |-> [h EXCEPT ![this].markers =
                         IF \E i \in 1..Len(@) : @[i] = markerType
                           THEN @ ELSE Append(@, markerType)],
   ret |-> this]

\* addMarker(markerType)
addMarker(h, this, markerType) ==
  [heap |-> [h EXCEPT ![this].markers = Append(@, markerType)],
   ret |-> this]

\* ------------------------------------------------------- JSON.stringify
\* The text JSON.stringify writes, as its sequence of tokens.
Punct(c) == [k |-> "punct", v |-> c]
StringTok(s) == [k |-> "string", v |-> s]
NullTok == [k |-> "null", v |-> "null"]

\* a string value, or null
StringifyValue(v) == IF v = Null THEN <<NullTok>> ELSE <<StringTok(v)>>

\* "key": value
StringifyMember(key, valueToks) == <<StringTok(key), Punct(":")>> \o valueToks

\* a history entry: its own keys in insertion order (the creation entry has
\* no context key)
StringifyEntry(e) ==
  <<Punct("{")>>
  \o StringifyMember("stage", StringifyValue(e.stage)) \o <<Punct(",")>>
  \o StringifyMember("color", StringifyValue(e.color))
  \o (IF "context" \in DOMAIN e
        THEN <<Punct(",")>> \o StringifyMember("context", StringifyValue(e.context))
        ELSE <<>>)
  \o <<Punct("}")>>

RECURSIVE StringifyElements(_, _)
\* the first n elements of an array, comma separated; toksOf[i] is the
\* text of element i
StringifyElements(toksOf, n) ==
  IF n = 0 THEN <<>>
  ELSE IF n = 1 THEN toksOf[1]
  ELSE StringifyElements(toksOf, n - 1) \o <<Punct(",")>> \o toksOf[n]

StringifyHistory(history) ==
  <<Punct("[")>>
  \o StringifyElements([i \in 1..Len(history) |-> StringifyEntry(history[i])],
                       Len(history))
  \o <<Punct("]")>>

StringifyMarkers(markers) ==
  <<Punct("[")>>
  \o StringifyElements([i \in 1..Len(markers) |-> StringifyValue(markers[i])],
                       Len(markers))
  \o <<Punct("]")>>

\* the snapshot text of a Fiber value
StringifyFiber(id, history, markers) ==
  <<Punct("{")>>
  \o StringifyMember("id", StringifyValue(id)) \o <<Punct(",")>>
  \o StringifyMember("history", StringifyHistory(history)) \o <<Punct(",")>>
  \o StringifyMember("markers", StringifyMarkers(markers))
  \o <<Punct("}")>>

Reverse(s) == [i \in 1..Len(s) |-> s[Len(s) + 1 - i]]

\* an export that puts the newest entry first with history.reverse(), which
\* reverses the array in place
exportLineage_reverses(h, this) ==
  LET reversed == [h EXCEPT ![this].history = Reverse(@)]
  IN  [heap |-> reversed,
       ret |-> StringifyFiber(h[this].id, reversed[this].history,
                              h[this].markers)]

\* an export of the current stage alone: history.slice(-1)
exportLineage_lastOnly(h, this) ==
  [heap |-> h,
   ret |-> StringifyFiber(h[this].id,
                          <<h[this].history[Len(h[this].history)]>>,
                          h[this].markers)]

\* exportLineage(): JSON.stringify({id, history, markers}, null, 2)
exportLineage(h, this) ==
  [heap |-> h,
   ret |-> StringifyFiber(h[this].id, h[this].history, h[this].markers)]

\* ------------------------------------------------------------ the caller
\* Objects no variable refers to any more are gone.
Collect(h, roots) == [r \in (DOMAIN h) \cap roots |-> h[r]]

\* the receiver of a call: the caller's variable, or, in a chained call, the
\* value the previous call returned
Receiver(chained) == IF chained THEN ret ELSE f

\* the same call made as a statement of its own on a Fiber value
OnValue(fiber) == (1 :> fiber)

Init ==
  \E id \in Ids, colorStart \in Colors \cup {Undefined} :
    LET r == Fresh(<<>>)
    IN  /\ heap = (r :> constructor(id, colorStart))
        /\ f = r
        /\ ret = r
        /\ out = <<>>
        /\ lastCall = [op |-> "create", chained |-> FALSE,
                       args |-> <<id, colorStart>>]
        /\ nTransform = 0
        /\ nAddMarker = 0
        /\ nExport = 0
        /\ shadow = constructor(id, colorStart)
        /\ pre = constructor(id, colorStart)
        /\ preOut = <<>>
        /\ AllIdleBut("fiber")

\* f = new Fiber(id, colorStart)
Create(id, colorStart) ==
  LET r == Fresh(heap)
  IN  /\ heap' = (r :> constructor(id, colorStart))
      /\ f' = r
      /\ ret' = r
      /\ out' = <<>>
      /\ lastCall' = [op |-> "create", chained |-> FALSE,
                      args |-> <<id, colorStart>>]
      /\ nTransform' = 0
      /\ nAddMarker' = 0
      /\ nExport' = 0
      /\ shadow' = constructor(id, colorStart)
      /\ pre' = constructor(id, colorStart)
      /\ preOut' = <<>>
      /\ UnchangedBut("fiber")

\* f.transform(type, color, context), or <previous call>.transform(...)
Transform(chained, type, color, context) ==
  /\ chained => ret # NoRef
  /\ Len(heap[Receiver(chained)].history) < MaxHistory
  /\ LET r == transform(heap, Receiver(chained), type, color, context)
     IN  /\ heap' = Collect(r.heap, {f, r.ret})
         /\ ret' = r.ret
  /\ out' = <<>>
  /\ lastCall' = [op |-> "transform", chained |-> chained,
                  args |-> <<type, color, context>>]
  /\ nTransform' = nTransform + 1
  /\ nExport' = 0
  /\ shadow' = transform(OnValue(shadow), 1, type, color, context).heap[1]
  /\ pre' = heap[f]
  /\ preOut' = out
  /\ UNCHANGED <<f, nAddMarker>>
  /\ UnchangedBut("fiber")

\* f.addMarker(markerType), or <previous call>.addMarker(markerType)
AddMarker(chained, markerType) ==
  /\ chained => ret # NoRef
  /\ Len(heap[Receiver(chained)].markers) < MaxMarkers
  /\ LET r == addMarker(heap, Receiver(chained), markerType)
     IN  /\ heap' = Collect(r.heap, {f, r.ret})
         /\ ret' = r.ret
  /\ out' = <<>>
  /\ lastCall' = [op |-> "addMarker", chained |-> chained,
                  args |-> <<markerType>>]
  /\ nAddMarker' = nAddMarker + 1
  /\ nExport' = 0
  /\ shadow' = addMarker(OnValue(shadow), 1, markerType).heap[1]
  /\ pre' = heap[f]
  /\ preOut' = out
  /\ UNCHANGED <<f, nTransform>>
  /\ UnchangedBut("fiber")

\* f.exportLineage(), or <previous call>.exportLineage()
ExportLineage(chained) ==
  /\ chained => ret # NoRef
  /\ nExport < MaxExport
  /\ LET r == exportLineage(heap, Receiver(chained))
     IN  /\ heap' = Collect(r.heap, {f})
         /\ out' = r.ret
  /\ ret' = NoRef
  /\ lastCall' = [op |-> "exportLineage", chained |-> chained, args |-> <<>>]
  /\ nExport' = nExport + 1
  /\ shadow' = exportLineage(OnValue(shadow), 1).heap[1]
  /\ pre' = heap[f]
  /\ preOut' = out
  /\ UNCHANGED <<f, nTransform, nAddMarker>>
  /\ UnchangedBut("fiber")

Next ==
  \/ \E id \in Ids, colorStart \in Colors \cup {Undefined} :
       Create(id, colorStart)
  \/ \E chained \in BOOLEAN, type \in Stages, color \in Colors,
        context \in Contexts \cup {Undefined} :
       Transform(chained, type, color, context)
  \/ \E chained \in BOOLEAN, markerType \in MarkerTypes :
       AddMarker(chained, markerType)
  \/ \E chained \in BOOLEAN : ExportLineage(chained)

Spec == Init /\ [][Next]_vars

\* the Fiber the caller holds
Fiber == heap[f]

\* ------------------------------------------------ reading a snapshot back
\* What a consumer reads from the text of a snapshot (JSON.parse): strings,
\* null, arrays as sequences and objects as records, from token i on.
RECURSIVE ParseValue(_, _), ParseElements(_, _, _), ParseMembers(_, _, _)
ParseValue(toks, i) ==
  IF toks[i].k = "string" THEN [val |-> toks[i].v, next |-> i + 1]
  ELSE IF toks[i].k = "null" THEN [val |-> Null, next |-> i + 1]
  ELSE IF toks[i] = Punct("[")
    THEN IF toks[i + 1] = Punct("]")
           THEN [val |-> <<>>, next |-> i + 2]
           ELSE ParseElements(toks, i + 1, <<>>)
    ELSE ParseMembers(toks, i + 1, <<>>)

ParseElements(toks, i, acc) ==
  LET r == ParseValue(toks, i)
  IN  IF toks[r.next] = Punct(",")
        THEN ParseElements(toks, r.next + 1, Append(acc, r.val))
        ELSE [val |-> Append(acc, r.val), next |-> r.next + 1]

ParseMembers(toks, i, acc) ==
  LET r == ParseValue(toks, i + 2)
      obj == acc @@ (toks[i].v :> r.val)
  IN  IF toks[r.next] = Punct(",")
        THEN ParseMembers(toks, r.next + 1, obj)
        ELSE [val |-> obj, next |-> r.next + 1]

Parse(toks) == ParseValue(toks, 1).val

IsPrefix(s, t) == Len(s) <= Len(t) /\ SubSeq(t, 1, Len(s)) = s

Last(s) == s[Len(s)]

\* ------------------------------------------------------------- claims
\* C1: the Fiber's current color (stage_tag) is the color (label) of its last
\* history entry in every reachable state, and right after
\* transform(type, color, context) both are the color given.
C1_StageTagIsLastLabel ==
  /\ Fiber.color = Last(Fiber.history).color
  /\ lastCall.op = "transform" =>
       /\ Fiber.color = lastCall.args[2]
       /\ Last(Fiber.history).color = lastCall.args[2]

\* a transform has changed the color of a Fiber that was transformed before
C1_Witness ==
  /\ lastCall.op = "transform"
  /\ Len(Fiber.history) = 3
  /\ Fiber.history[2].color # Fiber.color

\* C2: history.length is 1 plus the number of transform calls made on the
\* Fiber so far, and no call makes it shorter than it was.
C2_HistoryLength ==
  /\ Len(Fiber.history) = 1 + nTransform
  /\ Len(Fiber.history) >= Len(pre.history)

\* two transforms and a marker have been applied
C2_Witness ==
  /\ nTransform = 2
  /\ nAddMarker >= 1
  /\ Len(Fiber.history) = 3

\* C3: the history is append-only: every call leaves the history as it was a
\* prefix of the history as it is; it is never empty and its first entry is
\* the creation entry {stage: "start", color: initial label}.
C3_AppendOnly ==
  /\ Len(Fiber.history) >= 1
  /\ Fiber.history[1].stage = "start"
  /\ DOMAIN Fiber.history[1] = {"stage", "color"}
  /\ (lastCall.op = "create" /\ lastCall.args[2] # Undefined) =>
       Fiber.history[1].color = lastCall.args[2]
  /\ IsPrefix(pre.history, Fiber.history)

\* a Fiber created lightgreen has been transformed twice, to another color
C3_Witness ==
  /\ Len(Fiber.history) = 3
  /\ Fiber.history[1] = [stage |-> "start", color |-> "lightgreen"]
  /\ Fiber.history[2].color = "gold"
  /\ lastCall.op = "transform"

\* C4: right after create(id, label) the Fiber has the id given, exactly the
\* one history entry {stage: "start", color: label}, color label and no
\* markers.
C4_Create ==
  (lastCall.op = "create" /\ lastCall.args[2] # Undefined) =>
    /\ Fiber.id = lastCall.args[1]
    /\ Fiber.history = <<[stage |-> "start", color |-> lastCall.args[2]]>>
    /\ Fiber.color = lastCall.args[2]
    /\ Fiber.markers = <<>>

\* a second Fiber has been created, with a label that is not the default
C4_Witness ==
  /\ lastCall.op = "create"
  /\ lastCall.args = <<"w1", "lightgreen">>
  /\ f # 1

\* C5: right after addMarker the Fiber's id, color and history are what they
\* were before the call.
C5_AddMarkerFrame ==
  lastCall.op = "addMarker" =>
    /\ Fiber.id = pre.id
    /\ Fiber.color = pre.color
    /\ Fiber.history = pre.history

\* a marker has been added to a Fiber that has been transformed
C5_Witness ==
  /\ lastCall.op = "addMarker"
  /\ Len(Fiber.history) >= 2
  /\ Len(Fiber.markers) >= 1

\* C6: right after exportLineage the Fiber (id, color, history, markers) is
\* what it was before the call and no other object exists, and when the call
\* before it was an exportLineage too, both returned the same text.
C6_ExportPure ==
  lastCall.op = "exportLineage" =>
    /\ Fiber = pre
    /\ DOMAIN heap = {f}
    /\ nExport >= 2 => out = preOut

\* exportLineage has been called twice in a row on a Fiber with transforms
\* and markers
C6_Witness ==
  /\ nExport = 2
  /\ lastCall.op = "exportLineage"
  /\ Len(Fiber.history) >= 2
  /\ Fiber.markers # <<>>
  /\ preOut # <<>>

\* C7: the text exportLineage returns reads back as exactly the Fiber's id,
\* its whole history in order and its markers in insertion order.
C7_ExportSnapshot ==
  lastCall.op = "exportLineage" =>
    Parse(out) = [id |-> Fiber.id,
                  history |-> Fiber.history,
                  markers |-> Fiber.markers]

\* a Fiber with three entries and two different markers has been exported
C7_Witness ==
  /\ lastCall.op = "exportLineage"
  /\ Len(Fiber.history) = 3
  /\ Fiber.history[2] # Fiber.history[3]
  /\ Fiber.markers = <<"knot", "violet">>

\* C8: the id is the one given at creation and no call on the Fiber changes
\* it.
C8_IdImmutable ==
  /\ lastCall.op = "create" => Fiber.id = lastCall.args[1]
  /\ Fiber.id = pre.id

\* transform, addMarker and exportLineage have all been applied to a Fiber
C8_Witness ==
  /\ nTransform >= 1
  /\ nAddMarker >= 1
  /\ lastCall.op = "exportLineage"
  /\ Fiber.id = "w1"

\* C9: each addMarker(m) appends m, present already or not: the number of
\* markers is the number of addMarker calls, and every call leaves the
\* markers as they were a prefix of the markers as they are.
C9_MarkersAppendOnly ==
  /\ Len(Fiber.markers) = nAddMarker
  /\ IsPrefix(pre.markers, Fiber.markers)
  /\ lastCall.op = "addMarker" =>
       Fiber.markers = Append(pre.markers, lastCall.args[1])

\* the same marker has been added twice
C9_Witness ==
  /\ Fiber.markers = <<"violet", "violet">>
  /\ lastCall.op = "addMarker"

\* C10: transform and addMarker return the Fiber they were called on, and the
\* Fiber is in the state the same calls leave it in when each is made as a
\* statement of its own on it.
C10_ReturnsSameFiber ==
  /\ lastCall.op \in {"transform", "addMarker"} => ret = f
  /\ DOMAIN heap = {f}
  /\ Fiber = shadow

\* a call has been chained onto the Fiber a transform or addMarker returned
C10_Witness ==
  /\ lastCall.chained
  /\ lastCall.op \in {"transform", "addMarker"}
  /\ nTransform >= 1
  /\ nAddMarker >= 1

\* C11: every Fiber operation is total: create, transform with or without a
\* context, addMarker and exportLineage can be called in every reachable
\* state (short of the bounds of the model), each returns its value (a Fiber,
\* or the snapshot text) and none fails; a transform without a context
\* appends its entry with context null.
C11_Total ==
  /\ \A id \in Ids, colorStart \in Colors \cup {Undefined} :
       ENABLED Create(id, colorStart)
  /\ Len(Fiber.history) < MaxHistory =>
       \A type \in Stages, color \in Colors, context \in Contexts \cup {Undefined} :
         ENABLED Transform(FALSE, type, color, context)
  /\ Len(Fiber.markers) < MaxMarkers =>
       \A markerType \in MarkerTypes : ENABLED AddMarker(FALSE, markerType)
  /\ nExport < MaxExport => ENABLED ExportLineage(FALSE)
  /\ lastCall.op \in {"create", "transform", "addMarker"} =>
       ret \in DOMAIN heap
  /\ lastCall.op = "exportLineage" => Parse(out).id = Fiber.id
  /\ (lastCall.op = "transform" /\ lastCall.args[3] = Undefined) =>
       Fiber.history =
         Append(pre.history, [stage |-> lastCall.args[1],
                              color |-> lastCall.args[2],
                              context |-> Null])

\* a transform without a context has been applied after one with a context
C11_Witness ==
  /\ lastCall.op = "transform"
  /\ lastCall.args[3] = Undefined
  /\ Len(Fiber.history) = 3
  /\ Fiber.history[2].context = "shuttle"
  /\ Fiber.history[3].context = Null

\* ======================================================= filterFibers
\* frontend FiberCardViewer: filterFibers(list, query).  A string is the
\* sequence of its characters.
MaxList == 3        \* fibers in a list
MaxQuery == 2       \* characters in a query

Chars == {"a", "A", "b", "B"}

\* the store's Fiber records a list is made of (tags may be missing or empty)
FiberPool ==
  { [id |-> "1", content |-> <<"a", "B">>, tags |-> <<"b">>],
    [id |-> "2", content |-> <<"A", "b">>, tags |-> <<>>],
    [id |-> "3", content |-> <<"b">>, tags |-> <<"A", "B">>],
    [id |-> "4", content |-> <<"B", "a">>] }

SeqsUpTo(S, n) == UNION { [1..k -> S] : k \in 0..n }

\* String.prototype.toLowerCase
LowerChar(c) == CASE c = "A" -> "a" [] c = "B" -> "b" [] OTHER -> c
toLowerCase(str) == [i \in 1..Len(str) |-> LowerChar(str[i])]

\* String.prototype.includes
includes(str, q) ==
  \E k \in 0..(Len(str) - Len(q)) : SubSeq(str, k + 1, k + Len(q)) = q

\* (f.tags || '')
TagsOrEmpty(fb) == IF "tags" \in DOMAIN fb THEN fb.tags ELSE <<>>

\* a filterFibers that compares the query as typed
filterFibers_caseSensitive(list, query) ==
  LET Test(fb) == \/ includes(toLowerCase(fb.content), query)
                  \/ includes(toLowerCase(TagsOrEmpty(fb)), query)
  IN  [list |-> list, ret |-> SelectSeq(list, Test)]

\* a filterFibers that shows nothing until something is typed
filterFibers_emptyNone(list, query) ==
  LET q == toLowerCase(query)
      Test(fb) == \/ includes(toLowerCase(fb.content), q)
                  \/ includes(toLowerCase(TagsOrEmpty(fb)), q)
  IN  [list |-> list, ret |-> IF q = <<>> THEN <<>> ELSE SelectSeq(list, Test)]

\* a filterFibers that shows the newest first with list.reverse(), which
\* reverses the array in place
filterFibers_reverses(list, query) ==
  LET q == toLowerCase(query)
      Test(fb) == \/ includes(toLowerCase(fb.content), q)
                  \/ includes(toLowerCase(TagsOrEmpty(fb)), q)
  IN  [list |-> Reverse(list), ret |-> SelectSeq(Reverse(list), Test)]

\* filterFibers(list, query): the array after the call and the array returned
filterFibers(list, query) ==
  LET q == toLowerCase(query)
      Test(fb) == \/ includes(toLowerCase(fb.content), q)
                  \/ includes(toLowerCase(TagsOrEmpty(fb)), q)
  IN  [list |-> list, ret |-> SelectSeq(list, Test)]

FilterInit ==
  /\ \E list \in SeqsUpTo(FiberPool, MaxList), query \in SeqsUpTo(Chars, MaxQuery) :
       filterCall = [list |-> list, query |-> query, called |-> FALSE,
                     listAfter |-> list, ret |-> <<>>]
  /\ AllIdleBut("filter")

\* filtered = filterFibers(list, query)
FilterFibers ==
  /\ ~filterCall.called
  /\ LET r == filterFibers(filterCall.list, filterCall.query)
     IN  filterCall' = [filterCall EXCEPT !.called = TRUE,
                                          !.listAfter = r.list,
                                          !.ret = r.ret]
  /\ UnchangedBut("filter")

FilterNext == FilterFibers

SpecFilter == FilterInit /\ [][FilterNext]_vars

\* str has the characters of q in a row somewhere
Contains(str, q) ==
  \E i \in 1..(Len(str) + 1) :
    /\ i + Len(q) - 1 <= Len(str)
    /\ \A k \in 1..Len(q) : str[i + k - 1] = q[k]

\* the fiber matches the query, case-insensitively, in its content or tags
Matches(fb, query) ==
  \/ Contains(toLowerCase(fb.content), toLowerCase(query))
  \/ "tags" \in DOMAIN fb /\ Contains(toLowerCase(fb.tags), toLowerCase(query))

\* how often x occurs in seq
Count(seq, x) == Cardinality({i \in 1..Len(seq) : seq[i] = x})

\* the elements of seq at the positions in S, in order
RECURSIVE Pick(_, _, _)
Pick(seq, S, i) ==
  IF i > Len(seq) THEN <<>>
  ELSE (IF i \in S THEN <<seq[i]>> ELSE <<>>) \o Pick(seq, S, i + 1)

\* C12: filter(list, q) returns exactly the matching elements: every returned
\* element matches, and every matching element is returned as often as it is
\* in the list.
C12_FilterExact ==
  filterCall.called =>
    /\ \A i \in 1..Len(filterCall.ret) :
         Matches(filterCall.ret[i], filterCall.query)
    /\ \A fb \in FiberPool :
         Count(filterCall.ret, fb) =
           IF Matches(fb, filterCall.query)
             THEN Count(filterCall.list, fb) ELSE 0

\* an upper-case query has matched one fiber by its content and another by
\* its tags, and a third fiber was left out
C12_Witness ==
  /\ filterCall.called
  /\ filterCall.query = <<"A", "B">>
  /\ Len(filterCall.list) = 3
  /\ Len(filterCall.ret) = 2
  /\ \E i, j \in 1..2 : /\ filterCall.ret[i].id = "3"
                        /\ filterCall.ret[j].id = "1"
  /\ \E i \in 1..3 : filterCall.list[i].id = "4"

\* C13: filter(list, "") returns the list as it is, in order and length.
C13_EmptyQuery ==
  (filterCall.called /\ filterCall.query = <<>>) =>
    filterCall.ret = filterCall.list

\* the empty query has been applied to a list of three different fibers, one
\* of them without tags
C13_Witness ==
  /\ filterCall.called
  /\ filterCall.query = <<>>
  /\ Len(filterCall.ret) = 3
  /\ filterCall.ret[1].id = "4"
  /\ filterCall.ret[2].id = "2"
  /\ filterCall.ret[3].id = "1"

\* C14: the output of filter is a subsequence of its input (the elements at
\* some positions of the list, in the order of the list), and the input list
\* is as it was.
C14_Subsequence ==
  filterCall.called =>
    /\ \E S \in SUBSET (1..Len(filterCall.list)) :
         filterCall.ret = Pick(filterCall.list, S, 1)
    /\ filterCall.listAfter = filterCall.list

\* the first and the last of three different fibers have been returned
C14_Witness ==
  /\ filterCall.called
  /\ Len(filterCall.list) = 3
  /\ Len(filterCall.ret) = 2
  /\ filterCall.ret[1] = filterCall.list[1]
  /\ filterCall.ret[2] = filterCall.list[3]
  /\ filterCall.list[1] # filterCall.list[3]

\* ============================================ WarpFiber and WeftFiber
\* class WarpFiber extends Fiber {} and class WeftFiber extends Fiber {}:
\* one object of each class is given the same calls.
Classes == {"Fiber", "WarpFiber", "WeftFiber"}

\* the methods a class body defines itself
ClassBody(cls) ==
  IF cls = "Fiber"
    THEN {"constructor", "transform", "addMarker", "exportLineage"}
    ELSE {}

\* the class a class extends
Extends(cls) == IF cls \in {"WarpFiber", "WeftFiber"} THEN "Fiber" ELSE "Object"

\* the class whose body has the method an object of class cls runs
RECURSIVE Lookup(_, _)
Lookup(cls, method) ==
  IF method \in ClassBody(cls) THEN cls ELSE Lookup(Extends(cls), method)

\* the outcome of a method call on an object held by value: the object after
\* the call, whether the call returned the object, and the text it returned
Outcome(r) == [self |-> r.heap[1], this |-> r.ret = 1, text |-> <<>>]

\* new cls(id, colorStart)
New(cls, id, colorStart) ==
  CASE Lookup(cls, "constructor") = "Fiber" -> constructor(id, colorStart)

\* a WarpFiber with a transform of its own, which always records the warp
\* stage
InvokeTransform_warpOverride(cls, obj, type, color, context) ==
  IF cls = "WarpFiber"
    THEN Outcome(transform(OnValue(obj), 1, "warp", "springgreen", context))
    ELSE Outcome(transform(OnValue(obj), 1, type, color, context))

\* obj.transform(type, color, context) on an object of class cls
InvokeTransform(cls, obj, type, color, context) ==
  CASE Lookup(cls, "transform") = "Fiber" ->
    Outcome(transform(OnValue(obj), 1, type, color, context))

\* obj.addMarker(markerType) on an object of class cls
InvokeAddMarker(cls, obj, markerType) ==
  CASE Lookup(cls, "addMarker") = "Fiber" ->
    Outcome(addMarker(OnValue(obj), 1, markerType))

\* obj.exportLineage() on an object of class cls
InvokeExportLineage(cls, obj) ==
  CASE Lookup(cls, "exportLineage") = "Fiber" ->
    LET r == exportLineage(OnValue(obj), 1)
    IN  [self |-> r.heap[1], this |-> FALSE, text |-> r.ret]

ClassInit ==
  /\ \E id \in Ids, colorStart \in Colors \cup {Undefined} :
       /\ trio = [cls \in Classes |-> New(cls, id, colorStart)]
       /\ trioRet = [cls \in Classes |->
                       [this |-> TRUE, text |-> <<>>, op |-> "create"]]
  /\ AllIdleBut("class")

\* new Fiber(...), new WarpFiber(...), new WeftFiber(...), same arguments
TrioCreate(id, colorStart) ==
  /\ trio' = [cls \in Classes |-> New(cls, id, colorStart)]
  /\ trioRet' = [cls \in Classes |->
                   [this |-> TRUE, text |-> <<>>, op |-> "create"]]
  /\ UnchangedBut("class")

\* the same transform on each of the three
TrioTransform(type, color, context) ==
  /\ \A cls \in Classes : Len(trio[cls].history) < MaxHistory
  /\ LET r == [cls \in Classes |->
                 InvokeTransform(cls, trio[cls], type, color, context)]
     IN  /\ trio' = [cls \in Classes |-> r[cls].self]
         /\ trioRet' = [cls \in Classes |->
                          [this |-> r[cls].this, text |-> r[cls].text,
                           op |-> "transform"]]
  /\ UnchangedBut("class")

\* the same addMarker on each of the three
TrioAddMarker(markerType) ==
  /\ \A cls \in Classes : Len(trio[cls].markers) < MaxMarkers
  /\ LET r == [cls \in Classes |->
                 InvokeAddMarker(cls, trio[cls], markerType)]
     IN  /\ trio' = [cls \in Classes |-> r[cls].self]
         /\ trioRet' = [cls \in Classes |->
                          [this |-> r[cls].this, text |-> r[cls].text,
                           op |-> "addMarker"]]
  /\ UnchangedBut("class")

\* exportLineage on each of the three
TrioExportLineage ==
  /\ LET r == [cls \in Classes |-> InvokeExportLineage(cls, trio[cls])]
     IN  /\ trio' = [cls \in Classes |-> r[cls].self]
         /\ trioRet' = [cls \in Classes |->
                          [this |-> r[cls].this, text |-> r[cls].text,
                           op |-> "exportLineage"]]
  /\ UnchangedBut("class")

ClassNext ==
  \/ \E id \in Ids, colorStart \in Colors \cup {Undefined} :
       TrioCreate(id, colorStart)
  \/ \E type \in Stages, color \in Colors, context \in Contexts \cup {Undefined} :
       TrioTransform(type, color, context)
  \/ \E markerType \in MarkerTypes : TrioAddMarker(markerType)
  \/ TrioExportLineage

SpecClass == ClassInit /\ [][ClassNext]_vars

\* C15: given the same calls, a WarpFiber and a WeftFiber are in the state
\* the base Fiber is in and have returned what it returned.
C15_SubclassesSame ==
  \A cls \in {"WarpFiber", "WeftFiber"} :
    /\ trio[cls] = trio["Fiber"]
    /\ trioRet[cls] = trioRet["Fiber"]

\* the three have been transformed twice and marked, and then exported
C15_Witness ==
  /\ trioRet["WarpFiber"].op = "exportLineage"
  /\ Len(trioRet["WarpFiber"].text) > 0
  /\ Len(trio["WarpFiber"].history) = 3
  /\ trio["WarpFiber"].history[3].stage = "spin"
  /\ trio["WeftFiber"].markers # <<>>

\* ================================================== transcribeRawAudio
\* services/whisper/transcriptionService.ts.  A text is the sequence of its
\* pieces: the words of the template and the digits of the number.
MaxBytes == 40      \* byteLength of a buffer

\* type AudioFormat = 'wav' | 'mp3' | 'ogg', each the sequence of its characters
AudioFormats == { <<"w", "a", "v">>, <<"m", "p", "3">>, <<"o", "g", "g">> }

\* an ArrayBuffer
ArrayBuffers == { [byteLength |-> n] : n \in 0..MaxBytes }

Digit(d) ==
  CASE d = 0 -> "0" [] d = 1 -> "1" [] d = 2 -> "2" [] d = 3 -> "3"
    [] d = 4 -> "4" [] d = 5 -> "5" [] d = 6 -> "6" [] d = 7 -> "7"
    [] d = 8 -> "8" [] d = 9 -> "9"

\* ${n} for a non-negative integer: its decimal digits
RECURSIVE NumberToString(_)
NumberToString(n) ==
  IF n < 10 THEN <<Digit(n)>>
  ELSE NumberToString(n \div 10) \o <<Digit(n % 10)>>

\* fakeTranscription(dataLen)
fakeTranscription(dataLen) ==
  [text |-> <<"transcribed ">> \o NumberToString(dataLen) \o <<" bytes">>,
   confidence |-> 1,
   timestamps |-> <<>>]

\* a transcribeRawAudio that counts the bytes of the buffer alone
transcribeRawAudio_bufferOnly(buffer, format) ==
  [state |-> "fulfilled", value |-> fakeTranscription(buffer.byteLength)]

\* transcribeRawAudio(buffer, format): the promise it returns.  Nothing in
\* the try block throws for an ArrayBuffer and a string, so the catch block,
\* which rejects, is not entered.
transcribeRawAudio(buffer, format) ==
  LET len == buffer.byteLength + Len(format)
  IN  [state |-> "fulfilled", value |-> fakeTranscription(len)]

WhisperInit ==
  /\ \E buffer \in ArrayBuffers, format \in AudioFormats :
       rawCall = [buffer |-> buffer, format |-> format, called |-> FALSE,
                  promise |-> [state |-> "none"]]
  /\ AllIdleBut("whisper")

\* res = await transcribeRawAudio(buffer, format)
TranscribeRawAudio ==
  /\ ~rawCall.called
  /\ rawCall' = [rawCall EXCEPT
                   !.called = TRUE,
                   !.promise = transcribeRawAudio(rawCall.buffer, rawCall.format)]
  /\ UnchangedBut("whisper")

WhisperNext == TranscribeRawAudio

SpecWhisper == WhisperInit /\ [][WhisperNext]_vars

\* the number a sequence of decimal digits writes
DigitValue(c) == CHOOSE d \in 0..9 : Digit(d) = c
RECURSIVE DecimalValue(_)
DecimalValue(digits) ==
  IF digits = <<>> THEN 0
  ELSE 10 * DecimalValue(SubSeq(digits, 1, Len(digits) - 1))
       + DigitValue(digits[Len(digits)])

\* C16: transcribeRawAudio resolves, never rejects, to text 'transcribed n
\* bytes' with n = byte length of the buffer + length of the format name (n
\* written in decimal, without leading zeros), confidence 1 and no timestamps.
C16_RawAudioResult ==
  rawCall.called =>
    /\ rawCall.promise.state = "fulfilled"
    /\ LET text == rawCall.promise.value.text
           digits == SubSeq(text, 2, Len(text) - 1)
       IN  /\ Len(text) >= 3
           /\ text[1] = "transcribed "
           /\ text[Len(text)] = " bytes"
           /\ \A i \in 1..Len(digits) : \E d \in 0..9 : digits[i] = Digit(d)
           /\ Len(digits) > 1 => digits[1] # "0"
           /\ DecimalValue(digits) =
                rawCall.buffer.byteLength + Len(rawCall.format)
    /\ rawCall.promise.value.confidence = 1
    /\ rawCall.promise.value.timestamps = <<>>

\* a 9-byte mp3 buffer has been transcribed: 12 bytes, two digits
C16_Witness ==
  /\ rawCall.called
  /\ rawCall.buffer.byteLength = 9
  /\ rawCall.format = <<"m", "p", "3">>
  /\ rawCall.promise.value.text = <<"transcribed ", "1", "2", " bytes">>

\* ======================================================== IntakeWidget
\* The IntakeWidget component: `widget` is its state (useState), `sent` the
\* requests it has sent, in order, `requests` the calls of toggleRecording
\* that wait for an answer (by the position of their request in `sent`) and
\* what they wait for, `lastEvent` the last thing that happened and the value
\* recording had before it.
MaxRequests == 4    \* clicks on the record button

\* the body of an answer of /api/dictate/stop: its text, if it has one
StopTexts == {Undefined, "", "hello"}

StartRequest == [method |-> "POST", url |-> "/api/dictate/start"]
StopRequest == [method |-> "POST", url |-> "/api/dictate/stop"]

\* a toggleRecording that shows the recording state at once, before the
\* request is answered
toggleRecording_optimistic(w) ==
  IF ~w.recording
    THEN [widget |-> [w EXCEPT !.recording = TRUE], request |-> StartRequest]
    ELSE [widget |-> w, request |-> StopRequest]

\* toggleRecording(), up to its first await: the request it sends
toggleRecording(w) ==
  IF ~w.recording
    THEN [widget |-> w, request |-> StartRequest]
    ELSE [widget |-> w, request |-> StopRequest]

\* after `await fetch('/api/dictate/start', ...)`: setRecording(true)
afterStart(w) == [w EXCEPT !.recording = TRUE]

\* after `await resp.json()`: setText(data.text || ''); setRecording(false)
afterStop(w, dataText) ==
  [w EXCEPT !.text = IF dataText = Undefined THEN "" ELSE dataText,
            !.recording = FALSE]

WidgetInit ==
  /\ widget = [recording |-> FALSE, model |-> "large-turbo-v3", text |-> ""]
  /\ requests = <<>>
  /\ sent = <<>>
  /\ lastEvent = [ev |-> "mount", url |-> "", recording |-> FALSE, text |-> ""]
  /\ AllIdleBut("widget")

\* a click on the record button: toggleRecording() runs to its first await
Click ==
  /\ Len(sent) < MaxRequests
  /\ LET r == toggleRecording(widget)
     IN  /\ widget' = r.widget
         /\ sent' = Append(sent, r.request)
         /\ requests' = requests @@ ((Len(sent) + 1) :> "fetch")
         /\ lastEvent' = [ev |-> "click", url |-> r.request.url,
                          recording |-> widget.recording,
                          text |-> widget.text]
  /\ UnchangedBut("widget")

\* requests without id
Without(id) == [i \in (DOMAIN requests) \ {id} |-> requests[i]]

\* fetch resolves with a response (whatever its status)
FetchResolves(id) ==
  /\ id \in DOMAIN requests
  /\ requests[id] = "fetch"
  /\ IF sent[id] = StartRequest
       THEN /\ widget' = afterStart(widget)
            /\ requests' = Without(id)
       ELSE /\ widget' = widget
            /\ requests' = [requests EXCEPT ![id] = "json"]
  /\ lastEvent' = [ev |-> "resolved", url |-> sent[id].url,
                   recording |-> widget.recording,
                   text |-> widget.text]
  /\ UNCHANGED sent
  /\ UnchangedBut("widget")

\* fetch rejects (no answer): toggleRecording throws at its await
FetchRejects(id) ==
  /\ id \in DOMAIN requests
  /\ requests[id] = "fetch"
  /\ requests' = Without(id)
  /\ lastEvent' = [ev |-> "failed", url |-> sent[id].url, at |-> "fetch",
                   recording |-> widget.recording,
                   text |-> widget.text]
  /\ UNCHANGED <<widget, sent>>
  /\ UnchangedBut("widget")

\* resp.json() resolves with the body of the answer
JsonResolves(id, dataText) ==
  /\ id \in DOMAIN requests
  /\ requests[id] = "json"
  /\ widget' = afterStop(widget, dataText)
  /\ requests' = Without(id)
  /\ lastEvent' = [ev |-> "read", url |-> sent[id].url, data |-> dataText,
                   recording |-> widget.recording,
                   text |-> widget.text]
  /\ UNCHANGED sent
  /\ UnchangedBut("widget")

\* a toggleRecording that ends the recording whether or not the body of the
\* answer could be read
JsonRejects_stopsAnyway(id) ==
  /\ id \in DOMAIN requests
  /\ requests[id] = "json"
  /\ widget' = [widget EXCEPT !.recording = FALSE]
  /\ requests' = Without(id)
  /\ lastEvent' = [ev |-> "failed", url |-> sent[id].url, at |-> "json",
                   recording |-> widget.recording,
                   text |-> widget.text]
  /\ UNCHANGED sent
  /\ UnchangedBut("widget")

\* resp.json() rejects (the body is no JSON): toggleRecording throws
JsonRejects(id) ==
  /\ id \in DOMAIN requests
  /\ requests[id] = "json"
  /\ requests' = Without(id)
  /\ lastEvent' = [ev |-> "failed", url |-> sent[id].url, at |-> "json",
                   recording |-> widget.recording,
                   text |-> widget.text]
  /\ UNCHANGED <<widget, sent>>
  /\ UnchangedBut("widget")

WidgetNext ==
  \/ Click
  \/ \E id \in 1..MaxRequests : FetchResolves(id)
  \/ \E id \in 1..MaxRequests : FetchRejects(id)
  \/ \E id \in 1..MaxRequests, dataText \in StopTexts : JsonResolves(id, dataText)
  \/ \E id \in 1..MaxRequests : JsonRejects(id)

SpecWidget == WidgetInit /\ [][WidgetNext]_vars

\* C17: a click while the widget is not recording sends POST
\* /api/dictate/start (and leaves recording false), and recording goes from
\* false to true only when a start request is resolved.
C17_StartOnClick ==
  /\ (lastEvent.ev = "click" /\ ~lastEvent.recording) =>
       /\ sent[Len(sent)] = [method |-> "POST", url |-> "/api/dictate/start"]
       /\ Len(sent) \in DOMAIN requests
       /\ ~widget.recording
  /\ (widget.recording /\ ~lastEvent.recording) =>
       /\ lastEvent.ev = "resolved"
       /\ lastEvent.url = "/api/dictate/start"

\* after a whole start and stop round, a start request was sent again and
\* has been resolved
C17_Witness ==
  /\ Len(sent) = 3
  /\ sent[2].url = "/api/dictate/stop"
  /\ sent[3].url = "/api/dictate/start"
  /\ widget.recording
  /\ lastEvent.ev = "resolved"
  /\ widget.text = "hello"

\* C25: the requests sent to /api/dictate/start and /api/dictate/stop
\* alternate, beginning with start.
C25_Alternate ==
  \A i \in 1..Len(sent) :
    sent[i] = IF i % 2 = 1 THEN StartRequest ELSE StopRequest

\* (two start requests in flight together, after two clicks)
C25_TwoStarts ==
  /\ Len(sent) = 2
  /\ sent[1] = StartRequest
  /\ sent[2] = StartRequest
  /\ DOMAIN requests = {1, 2}

PreviewLen == 100   \* fiber.content.length > 100, slice(0, 100)
MaxOver == 2        \* content lengths run from PreviewLen - MaxOver to PreviewLen + MaxOver
MaxTags == 4        \* characters in fiber.tags

\* the characters of a tags string: letters, a comma and a space
TagChars == {"t", "u", ",", " "}

\* /[,\s]/ over TagChars
IsSeparator(c) == c \in {",", " "}

\* a content of n characters
ContentOf(n) ==
  [i \in 1..n |-> CASE i % 3 = 0 -> "c" [] i % 3 = 1 -> "a" [] OTHER -> "b"]

Contents ==
  {ContentOf(0)}
  \cup {ContentOf(n) : n \in (PreviewLen - MaxOver)..(PreviewLen + MaxOver)}

\* the fibers a card is given: with a tags string, or without tags
CardFibers ==
  { [content |-> c, tags |-> t] : c \in Contents, t \in SeqsUpTo(TagChars, MaxTags) }
  \cup { [content |-> c] : c \in Contents }

\* String.prototype.split(/[,\s]+/): the pieces between the runs of
\* separators (the first and the last piece may be empty), from
\* character i on; cur is the piece being read, inRun whether the previous
\* character was a separator
RECURSIVE SplitFrom(_, _, _, _)
SplitFrom(str, i, cur, inRun) ==
  IF i > Len(str) THEN <<cur>>
  ELSE IF IsSeparator(str[i])
    THEN (IF inRun THEN <<>> ELSE <<cur>>) \o SplitFrom(str, i + 1, <<>>, TRUE)
    ELSE SplitFrom(str, i + 1, Append(cur, str[i]), FALSE)

split(str) == SplitFrom(str, 1, <<>>, FALSE)

\* fiber.tags ? fiber.tags.split(/[,\s]+/).filter((t) => t) : []
TagsOf(fiber) ==
  IF "tags" \in DOMAIN fiber /\ fiber.tags # <<>>
    THEN SelectSeq(split(fiber.tags), LAMBDA t : t # <<>>)
    ELSE <<>>

\* String.prototype.slice(0, n)
slice(str, n) == SubSeq(str, 1, IF n < Len(str) THEN n ELSE Len(str))

\* a FiberCard that cuts a content of exactly 100 characters too
FiberCard_offByOne(fiber, expanded) ==
  [tags |-> TagsOf(fiber),
   contentPreview |->
     IF ~expanded /\ Len(fiber.content) >= PreviewLen
       THEN slice(fiber.content, PreviewLen) \o <<"...">>
       ELSE fiber.content,
   button |-> IF Len(fiber.content) > PreviewLen
                THEN (IF expanded THEN "Read less" ELSE "Read more")
                ELSE "none"]

\* FiberCard({ fiber }) with state expanded: the tags, the content and the
\* button it renders ("..." is the one character of the ellipsis)
FiberCard(fiber, expanded) ==
  [tags |-> TagsOf(fiber),
   contentPreview |->
     IF ~expanded /\ Len(fiber.content) > PreviewLen
       THEN slice(fiber.content, PreviewLen) \o <<"...">>
       ELSE fiber.content,
   button |-> IF Len(fiber.content) > PreviewLen
                THEN (IF expanded THEN "Read less" ELSE "Read more")
                ELSE "none"]

CardInit ==
  /\ \E fiber \in CardFibers :
       card = [fiber |-> fiber, expanded |-> FALSE,
               view |-> FiberCard(fiber, FALSE),
               last |-> "mount", before |-> FALSE]
  /\ AllIdleBut("card")

\* a click on Read more / Read less: setExpanded((e) => !e), and the card
\* renders again
ClickReadMore ==
  /\ card.view.button # "none"
  /\ card' = [card EXCEPT !.expanded = ~card.expanded,
                          !.view = FiberCard(card.fiber, ~card.expanded),
                          !.last = "click",
                          !.before = card.expanded]
  /\ UnchangedBut("card")

CardNext == ClickReadMore

SpecCard == CardInit /\ [][CardNext]_vars

\* the runs of characters of str between separators: <<i, j>> is a run when
\* str[i..j] has no separator and cannot be made longer
Runs(str) ==
  { r \in (1..Len(str)) \X (1..Len(str)) :
      /\ r[1] <= r[2]
      /\ \A k \in r[1]..r[2] : str[k] \notin {",", " "}
      /\ r[1] = 1 \/ str[r[1] - 1] \in {",", " "}
      /\ r[2] = Len(str) \/ str[r[2] + 1] \in {",", " "} }

\* C18: the card shows every non-empty tag token of fiber.tags, in order, and
\* nothing else as a tag; it shows the whole content when that has at most
\* 100 characters or the card is expanded, and its first 100 characters and
\* an ellipsis otherwise; a click on Read more / Read less flips expanded.
C18_CardRenders ==
  /\ LET str == IF "tags" \in DOMAIN card.fiber THEN card.fiber.tags ELSE <<>>
         shown == card.view.tags
     IN  /\ Len(shown) = Cardinality(Runs(str))
         /\ \A k \in 1..Len(shown) :
              \E r \in Runs(str) :
                /\ shown[k] = SubSeq(str, r[1], r[2])
                /\ Cardinality({q \in Runs(str) : q[1] < r[1]}) = k - 1
  /\ (Len(card.fiber.content) <= 100 \/ card.expanded) =>
       card.view.contentPreview = card.fiber.content
  /\ (Len(card.fiber.content) > 100 /\ ~card.expanded) =>
       /\ Len(card.view.contentPreview) = 101
       /\ \A i \in 1..100 : card.view.contentPreview[i] = card.fiber.content[i]
       /\ card.view.contentPreview[101] = "..."
  /\ card.last = "click" => card.expanded = ~card.before

\* a card with a long content and tags with leading, doubled and trailing
\* separators has been expanded and collapsed again
C18_Witness ==
  /\ card.last = "click"
  /\ ~card.expanded
  /\ card.before
  /\ Len(card.fiber.content) = 102
  /\ "tags" \in DOMAIN card.fiber
  /\ card.fiber.tags = <<",", "t", " ", "u">>
  /\ card.view.tags = << <<"t">>, <<"u">> >>

\* ======================================================= the animation
\* main.js with weave.js and spinner.js: `wfibers` holds the Fiber objects
\* made so far, by id (the parts of the template literal, <<"f", i>> for
\* `f${i}`), `weave` the Weave and `mainPc` the position of the set-up.
NumLoose == 2       \* fibers along the Z path (main.js: 10)
WeaveCols == 7      \* columns of the Weave (main.js: 30)
WeaveRows == 3      \* rows of the Weave (main.js: 20)

\* 'WEAVING WHAT MATTERS'.split('')
Tagline ==
  <<"W", "E", "A", "V", "I", "N", "G", " ", "W", "H", "A", "T", " ",
    "M", "A", "T", "T", "E", "R", "S">>

False == "<false>"   \* the value false of a cell

\* new Weave(cols, rows, cell)
NewWeave(cols, rows) ==
  [cols |-> cols, rows |-> rows, warp |-> <<>>, weftPasses |-> <<>>,
   pattern |-> Null]

\* Spinner.spin(fiber)
spin(h, fiber) ==
  [heap |-> transform(h, fiber, "spin", "lightgreen", Undefined).heap,
   ret |-> fiber]

\* Weave.addWarpFiber(fiber, slot)
addWarpFiber(w, h, fiber, slot) ==
  LET r == transform(h, fiber, "warp", "springgreen", Undefined)
  IN  [weave |-> [w EXCEPT !.warp = (slot :> r.ret) @@ @], heap |-> r.heap]

\* fibers.map(f => f.transform('weft', 'darkgreen')), from element i on
RECURSIVE MapTransformWeft(_, _, _)
MapTransformWeft(h, fibers, i) ==
  IF i > Len(fibers) THEN [heap |-> h, ret |-> <<>>]
  ELSE LET r == transform(h, fibers[i], "weft", "darkgreen", Undefined)
           rest == MapTransformWeft(r.heap, fibers, i + 1)
       IN  [heap |-> rest.heap, ret |-> <<r.ret>> \o rest.ret]

\* Weave.addWeftPass(fibers)
addWeftPass(w, h, fibers) ==
  LET r == MapTransformWeft(h, fibers, 1)
  IN  [weave |-> [w EXCEPT !.weftPasses = Append(@, r.ret)], heap |-> r.heap]

\* the cells of the matrix in the order of the two loops: cell k is
\* (k \div cols, k % cols), k from 0
CellsOf(w) == 0..(w.rows * w.cols - 1)

\* the number of characters placed before cell k, when hits are the cells at
\* which Math.random() < 0.05 was drawn
RECURSIVE PlacedBefore(_, _)
PlacedBefore(hits, k) ==
  IF k = 0 THEN 0
  ELSE LET idx == PlacedBefore(hits, k - 1)
       IN  IF idx < Len(Tagline) /\ (k - 1) \in hits THEN idx + 1 ELSE idx

\* Weave.generatePatternMatrix(), for the draws of Math.random()
generatePatternMatrix(w, hits) ==
  LET matrix ==
        [r \in 0..(w.rows - 1) |->
          [c \in 0..(w.cols - 1) |->
            LET k == r * w.cols + c
                idx == PlacedBefore(hits, k)
            IN  IF idx < Len(Tagline) /\ k \in hits
                  THEN Tagline[idx + 1] ELSE False]]
  IN  [weave |-> [w EXCEPT !.pattern = matrix], ret |-> matrix]

\* the draws of Math.random() of one call that are looked at here: at most
\* two cells drawn below 0.05, or at most two cells not
Draws(w) ==
  LET few == {{}} \cup { {a, b} : a \in CellsOf(w), b \in CellsOf(w) }
  IN  few \cup { CellsOf(w) \ H : H \in few }

WeaveInit ==
  /\ wfibers = <<>>
  /\ weave = Null
  /\ mainPc = [stage |-> "fibers", i |-> 0]
  /\ AllIdleBut("weave")

\* for (let i=0;i<10;i++) fibers.push(new Fiber(`f${i}`)), one round
MainNewFiber ==
  /\ mainPc.stage = "fibers"
  /\ LET id == <<"f", mainPc.i>>
     IN  wfibers' = wfibers @@ (id :> New("Fiber", id, Undefined))
  /\ mainPc' = IF mainPc.i + 1 < NumLoose
                 THEN [mainPc EXCEPT !.i = @ + 1]
                 ELSE [stage |-> "weave", i |-> 0]
  /\ UNCHANGED weave
  /\ UnchangedBut("weave")

\* const weave = new Weave(30, 20, ...)
MainNewWeave ==
  /\ mainPc.stage = "weave"
  /\ weave' = NewWeave(WeaveCols, WeaveRows)
  /\ mainPc' = [stage |-> "warp", i |-> 0]
  /\ UNCHANGED wfibers
  /\ UnchangedBut("weave")

\* weave.addWarpFiber(new WarpFiber(`w${i}`, 'springgreen'), i), one round
MainAddWarp ==
  /\ mainPc.stage = "warp"
  /\ LET id == <<"w", mainPc.i>>
         made == wfibers @@ (id :> New("WarpFiber", id, "springgreen"))
         r == addWarpFiber(weave, made, id, mainPc.i)
     IN  /\ wfibers' = r.heap
         /\ weave' = r.weave
  /\ mainPc' = IF mainPc.i + 1 < weave.cols
                 THEN [mainPc EXCEPT !.i = @ + 1]
                 ELSE [stage |-> "weft", i |-> 0]
  /\ UnchangedBut("weave")

\* one pass of new WeftFiber(`p${p}-${j}`), j < cols, and
\* weave.addWeftPass(pass)
MainAddWeftPass ==
  /\ mainPc.stage = "weft"
  /\ LET pass == [k \in 1..weave.cols |-> <<"p", mainPc.i, k - 1>>]
         made == wfibers @@ [id \in {pass[k] : k \in 1..weave.cols} |->
                               New("WeftFiber", id, Undefined)]
         r == addWeftPass(weave, made, pass)
     IN  /\ wfibers' = r.heap
         /\ weave' = r.weave
  /\ mainPc' = IF mainPc.i + 1 < weave.rows
                 THEN [mainPc EXCEPT !.i = @ + 1]
                 ELSE [stage |-> "pattern", i |-> 0]
  /\ UnchangedBut("weave")

\* weave.generatePatternMatrix(), and the animation starts
MainGeneratePattern ==
  /\ mainPc.stage = "pattern"
  /\ \E hits \in Draws(weave) :
       weave' = generatePatternMatrix(weave, hits).weave
  /\ mainPc' = [stage |-> "animate", i |-> 0]
  /\ UNCHANGED wfibers
  /\ UnchangedBut("weave")

\* spinner.spin(fibers[i]) on a fiber of the Z path
Spin(id) ==
  /\ id \in DOMAIN wfibers
  /\ id[1] = "f"
  /\ Len(wfibers[id].history) < MaxHistory
  /\ wfibers' = spin(wfibers, id).heap
  /\ UNCHANGED <<weave, mainPc>>
  /\ UnchangedBut("weave")

WeaveNext ==
  \/ MainNewFiber
  \/ MainNewWeave
  \/ MainAddWarp
  \/ MainAddWeftPass
  \/ MainGeneratePattern
  \/ \E i \in 0..(NumLoose - 1) : Spin(<<"f", i>>)

SpecWeave == WeaveInit /\ [][WeaveNext]_vars

\* the place of a color on the journey gold, lightgreen, springgreen,
\* darkgreen
JourneyRank(color) ==
  CASE color = "gold" -> 1
    [] color = "lightgreen" -> 2
    [] color = "springgreen" -> 3
    [] color = "darkgreen" -> 4
    [] OTHER -> 0

\* C19: every fiber starts gold, spin records lightgreen, the warp stage
\* springgreen and the weft stage darkgreen, and the colors of a history only
\* move forward along gold, lightgreen, springgreen, darkgreen.
C19_ColourJourney ==
  \A id \in DOMAIN wfibers :
    LET history == wfibers[id].history
    IN  /\ history[1].color = "gold"
        /\ \A k \in 2..Len(history) :
             /\ history[k].stage = "spin" => history[k].color = "lightgreen"
             /\ history[k].stage = "warp" => history[k].color = "springgreen"
             /\ history[k].stage = "weft" => history[k].color = "darkgreen"
             /\ JourneyRank(history[k].color) >= JourneyRank(history[k - 1].color)

\* the characters of the matrix, row by row
RECURSIVE ReadOff(_, _, _)
ReadOff(w, matrix, k) ==
  IF k >= w.rows * w.cols THEN <<>>
  ELSE LET cell == matrix[k \div w.cols][k % w.cols]
       IN  (IF cell = False THEN <<>> ELSE <<cell>>) \o ReadOff(w, matrix, k + 1)

\* C20: the matrix generatePatternMatrix has generated holds the whole text
\* 'WEAVING WHAT MATTERS', one character a cell, whatever was drawn.
C20_TaglineRevealed ==
  mainPc.stage = "animate" => ReadOff(weave, weave.pattern, 0) = Tagline

\* (the text is revealed when enough cells are drawn: a state the model
\* reaches)
C20_SomeReveal ==
  /\ mainPc.stage = "animate"
  /\ ReadOff(weave, weave.pattern, 0) = Tagline

\* ================================================= bootstrap_all.sh
\* A run of scripts/environment/bootstrap_all.sh with the scripts it calls:
\* `boot` holds the command that runs next (pc), whether the run goes on
\* ("running"), was stopped by set -e ("aborted") or reached the end
\* ("complete"), the files that exist, whether the Python packages can be
\* imported and apt-get is there, and the scripts that ran to their end.
\* (The """ lines at the head of each script are one word that is run as a
\* command and not found, before set -e: the run goes on.)
BootFiles == {"coder-env/bin/activate", "zoros-frontend"}

\* set -e: a command that fails ends the script, and so its caller
Abort(b) == [b EXCEPT !.status = "aborted"]

Goto(b, pc) == [b EXCEPT !.pc = pc]

\* bootstrap_all.sh lines 36-45; the two calls lead into the scripts
bootstrap_all(b, ok) ==
  CASE b.pc = "all:mkdir" ->
         IF ok THEN Goto([b EXCEPT !.files = @ \cup {"env"}], "all:touch")
         ELSE Abort(b)
    [] b.pc = "all:touch" ->
         IF ok
           THEN Goto([b EXCEPT !.files = @ \cup {"env/FULLSTACK_READY"}],
                     "coder:test")
           ELSE Abort(b)
    [] b.pc = "all:complete" -> [b EXCEPT !.status = "complete"]

\* setup_coder_env.sh, called by setup_backend_env.sh line 36
setup_coder_env(b, ok) ==
  CASE b.pc = "coder:test" ->
         IF "coder-env/bin/activate" \notin b.files
           THEN Goto(b, "coder:venv") ELSE Goto(b, "coder:activate")
    [] b.pc = "coder:venv" ->
         IF ok
           THEN Goto([b EXCEPT !.files = @ \cup {"coder-env/bin/activate"}],
                     "coder:activate")
           ELSE Abort(b)
    [] b.pc = "coder:activate" ->
         IF ok THEN Goto(b, "coder:check") ELSE Abort(b)
    [] b.pc = "coder:check" ->
         IF ~b.packages THEN Goto(b, "coder:pip") ELSE Goto(b, "coder:import")
    [] b.pc = "coder:pip" ->
         IF ok THEN Goto([b EXCEPT !.packages = TRUE], "coder:import")
         ELSE Abort(b)
    [] b.pc = "coder:import" ->
         IF ok /\ b.packages THEN Goto(b, "coder:mkdir") ELSE Abort(b)
    [] b.pc = "coder:mkdir" ->
         IF ok THEN Goto([b EXCEPT !.files = @ \cup {"env"}], "coder:touch")
         ELSE Abort(b)
    [] b.pc = "coder:touch" ->
         IF ok
           THEN Goto([b EXCEPT !.files = @ \cup {"env/BACKEND_READY"},
                               !.done = @ \cup {"setup_coder_env.sh"}],
                     "backend:activate")
           ELSE Abort(b)

\* setup_backend_env.sh lines 39-53
setup_backend_env(b, ok) ==
  CASE b.pc = "backend:activate" ->
         IF ok THEN Goto(b, "backend:test") ELSE Abort(b)
    [] b.pc = "backend:test" ->
         IF b.aptGet THEN Goto(b, "backend:update") ELSE Goto(b, "backend:pip")
    [] b.pc = "backend:update" ->
         IF ok THEN Goto(b, "backend:install") ELSE Abort(b)
    [] b.pc = "backend:install" ->
         IF ok THEN Goto(b, "backend:pip") ELSE Abort(b)
    [] b.pc = "backend:pip" ->
         IF ok
           THEN Goto([b EXCEPT !.done = @ \cup {"setup_backend_env.sh"}],
                     "frontend:test")
           ELSE Abort(b)

\* setup_frontend_env.sh
setup_frontend_env(b, ok) ==
  CASE b.pc = "frontend:test" ->
         IF "zoros-frontend" \in b.files
           THEN Goto(b, "frontend:npm") ELSE Goto(b, "frontend:mkdir")
    [] b.pc = "frontend:npm" ->
         IF ok THEN Goto(b, "frontend:mkdir") ELSE Abort(b)
    [] b.pc = "frontend:mkdir" ->
         IF ok THEN Goto([b EXCEPT !.files = @ \cup {"env"}], "frontend:touch")
         ELSE Abort(b)
    [] b.pc = "frontend:touch" ->
         IF ok
           THEN Goto([b EXCEPT !.files = @ \cup {"env/FRONTEND_READY"},
                               !.done = @ \cup {"setup_frontend_env.sh"}],
                     "all:complete")
           ELSE Abort(b)

\* the script a command belongs to
ScriptOf(pc) ==
  CASE pc \in {"all:mkdir", "all:touch", "all:complete"} -> "bootstrap_all.sh"
    [] pc \in {"coder:test", "coder:venv", "coder:activate", "coder:check",
               "coder:pip", "coder:import", "coder:mkdir", "coder:touch"} ->
         "setup_coder_env.sh"
    [] pc \in {"backend:activate", "backend:test", "backend:update",
               "backend:install", "backend:pip"} -> "setup_backend_env.sh"
    [] OTHER -> "setup_frontend_env.sh"

\* a checkout without breadcrumbs, whatever else is there
BootInit ==
  /\ \E files \in SUBSET BootFiles, packages \in BOOLEAN, aptGet \in BOOLEAN :
       boot = [pc |-> "all:mkdir", status |-> "running", files |-> files,
               packages |-> packages, aptGet |-> aptGet, done |-> {}]
  /\ AllIdleBut("boot")

Running(script) ==
  /\ boot.status = "running"
  /\ ScriptOf(boot.pc) = script

BootstrapAll ==
  /\ Running("bootstrap_all.sh")
  /\ \E ok \in BOOLEAN : boot' = bootstrap_all(boot, ok)
  /\ UnchangedBut("boot")

SetupCoderEnv ==
  /\ Running("setup_coder_env.sh")
  /\ \E ok \in BOOLEAN : boot' = setup_coder_env(boot, ok)
  /\ UnchangedBut("boot")

SetupBackendEnv ==
  /\ Running("setup_backend_env.sh")
  /\ \E ok \in BOOLEAN : boot' = setup_backend_env(boot, ok)
  /\ UnchangedBut("boot")

SetupFrontendEnv ==
  /\ Running("setup_frontend_env.sh")
  /\ \E ok \in BOOLEAN : boot' = setup_frontend_env(boot, ok)
  /\ UnchangedBut("boot")

BootNext ==
  \/ BootstrapAll
  \/ SetupCoderEnv
  \/ SetupBackendEnv
  \/ SetupFrontendEnv

SpecBoot == BootInit /\ [][BootNext]_vars

\* C21: env/FULLSTACK_READY exists only if setup_backend_env.sh and
\* setup_frontend_env.sh have both run to their end, in every run, aborted
\* runs included.
C21_ReadyMeansBothDone ==
  "env/FULLSTACK_READY" \in boot.files
    => {"setup_backend_env.sh", "setup_frontend_env.sh"} \subseteq boot.done

\* (a run that was aborted in the backend set-up and left the breadcrumb)
C21_AbortedWithBreadcrumb ==
  /\ boot.status = "aborted"
  /\ "env/FULLSTACK_READY" \in boot.files
  /\ "setup_backend_env.sh" \notin boot.done

\* ================================================== the intake store
\* ZorosStoreProvider with the RecordButton and useAudioRecorder: `store`
\* holds isRecording and transcription, `transcribing` the calls of
\* stopRecording whose request has not settled (numbered by the click that
\* made them), `nClicks` the clicks so far and `storeEvent` what happened last
\* with the transcription it found.
MaxClicks == 6      \* clicks on the RecordButton

\* what blob.arrayBuffer() can reject with
ReadErrors == { [message |-> "NotReadableError"], [message |-> "NotFoundError"] }

\* { ...r, <overrides> }
Spread(r, overrides) == overrides @@ r

\* a setTranscriptionPending that keeps the error
setTranscriptionPending_keepsError(t) ==
  Spread(t, [status |-> "pending"])

\* setTranscription((t) => ({ ...t, status: 'pending', error: undefined }))
setTranscriptionPending(t) ==
  Spread(t, [status |-> "pending", error |-> Undefined])

\* setTranscription({ ...r, status: 'fulfilled', error: undefined })
setTranscriptionResult(t, r) ==
  Spread(r, [status |-> "fulfilled", error |-> Undefined])

\* a setTranscriptionError that records the message and leaves the status
setTranscriptionError_keepsStatus(t, msg) ==
  Spread(t, [error |-> msg])

\* setTranscription((t) => ({ ...t, status: 'error', error: msg }))
setTranscriptionError(t, msg) ==
  Spread(t, [status |-> "error", error |-> msg])

\* requestTranscription(blob), once blob.arrayBuffer() has resolved with
\* buffer: the promise of transcribeRawAudio(buffer, 'wav')
requestTranscription(buffer) ==
  transcribeRawAudio(buffer, <<"w", "a", "v">>)

\* new Blob(): its arrayBuffer() has no bytes
DummyBuffer == [byteLength |-> 0]

StoreInit ==
  /\ store = [isRecording |-> FALSE,
              transcription |-> [text |-> <<>>, confidence |-> 0,
                                 timestamps |-> <<>>, status |-> "idle",
                                 error |-> Undefined]]
  /\ transcribing = {}
  /\ nClicks = 0
  /\ storeEvent = [op |-> "init"]
  /\ AllIdleBut("store")

\* RecordButton.handleClick: toggleRecording(), then startRecording() or
\* stopRecording() up to its await
HandleClick ==
  /\ nClicks < MaxClicks
  /\ nClicks' = nClicks + 1
  /\ IF ~store.isRecording
       THEN /\ store' = [store EXCEPT !.isRecording = ~@]
            /\ storeEvent' = [op |-> "startRecording"]
            /\ UNCHANGED transcribing
       ELSE /\ store' = [store EXCEPT
                           !.isRecording = ~@,
                           !.transcription = setTranscriptionPending(@)]
            /\ transcribing' = transcribing \cup {nClicks'}
            /\ storeEvent' = [op |-> "stopRecording", id |-> nClicks',
                              pre |-> store.transcription]
  /\ UnchangedBut("store")

\* the request of call id resolves: stopRecording goes on after its await
RequestResolves(id) ==
  /\ id \in transcribing
  /\ LET promise == requestTranscription(DummyBuffer)
         result == promise.value
         arg == Spread(result, [status |-> "fulfilled"])
     IN  /\ promise.state = "fulfilled"
         /\ store' = [store EXCEPT
                        !.transcription = setTranscriptionResult(@, arg)]
         /\ storeEvent' = [op |-> "resolved", id |-> id, result |-> result,
                           pre |-> store.transcription]
  /\ transcribing' = transcribing \ {id}
  /\ UNCHANGED nClicks
  /\ UnchangedBut("store")

\* the request of call id rejects with err: the catch block of stopRecording
RequestRejects(id, err) ==
  /\ id \in transcribing
  /\ store' = [store EXCEPT
                 !.transcription = setTranscriptionError(@, err.message)]
  /\ storeEvent' = [op |-> "rejected", id |-> id, err |-> err,
                    pre |-> store.transcription]
  /\ transcribing' = transcribing \ {id}
  /\ UNCHANGED nClicks
  /\ UnchangedBut("store")

StoreNext ==
  \/ HandleClick
  \/ \E id \in 1..MaxClicks : RequestResolves(id)
  \/ \E id \in 1..MaxClicks, err \in ReadErrors : RequestRejects(id, err)

SpecStore == StoreInit /\ [][StoreNext]_vars

Transcription == store.transcription

\* C22: while a request started by stopRecording has not settled, the
\* status of the transcription is 'pending'.
C22_PendingWhileInFlight ==
  transcribing # {} => Transcription.status = "pending"

\* (a request in flight under the status of another, settled one)
C22_InFlightNotPending ==
  /\ transcribing # {}
  /\ Transcription.status = "fulfilled"

\* C23: a stopRecording call first sets the status to 'pending'; when its
\* request resolves the status is 'fulfilled', when it rejects the status is
\* 'error' with the message of the error; and once every request has settled
\* the status is 'fulfilled' or 'error'.
C23_PendingThenSettled ==
  /\ storeEvent.op = "stopRecording" => Transcription.status = "pending"
  /\ storeEvent.op = "resolved" =>
       /\ Transcription.status = "fulfilled"
       /\ Transcription.text = storeEvent.result.text
  /\ storeEvent.op = "rejected" =>
       /\ Transcription.status = "error"
       /\ Transcription.error = storeEvent.err.message
  /\ (transcribing = {} /\ nClicks >= 2) =>
       Transcription.status \in {"fulfilled", "error"}

\* two calls in flight together, the second one settled first and the first
\* one rejected last
C23_Witness ==
  /\ transcribing = {}
  /\ storeEvent.op = "rejected"
  /\ storeEvent.id = 2
  /\ storeEvent.pre.status = "fulfilled"
  /\ nClicks = 4
  /\ Transcription.status = "error"

\* C24: the error is set only while the status is 'error'; the store starts
\* 'idle' without error; setTranscriptionPending and setTranscriptionResult
\* clear the error; setTranscriptionPending and setTranscriptionError leave
\* text, confidence and timestamps as they were.
C24_ErrorOnlyInError ==
  /\ Transcription.error # Undefined => Transcription.status = "error"
  /\ storeEvent.op = "init" =>
       /\ Transcription.status = "idle"
       /\ Transcription.error = Undefined
  /\ storeEvent.op \in {"stopRecording", "resolved"} =>
       Transcription.error = Undefined
  /\ storeEvent.op \in {"stopRecording", "rejected"} =>
       /\ Transcription.text = storeEvent.pre.text
       /\ Transcription.confidence = storeEvent.pre.confidence
       /\ Transcription.timestamps = storeEvent.pre.timestamps

\* setTranscriptionPending on a transcription that holds a text and an error
C24_Witness ==
  /\ storeEvent.op = "stopRecording"
  /\ storeEvent.pre.status = "error"
  /\ storeEvent.pre.error # Undefined
  /\ storeEvent.pre.text # <<>>
  /\ Transcription.text = storeEvent.pre.text

\* ===================================================== FiberCardViewer
\* FiberCardViewer and the store it reads: `viewer` holds fibers, filter and
\* selectedThread of the store, dragIndex of the component (an index from 0,
\* as in the code) and whether rendering has thrown; `fetchLog` the
\* /api/fibers requests in the order they were sent, each with its thread
\* parameter and how far it has come; `viewEvent` what happened last, with
\* the card the last drag started on.
MaxFetches == 3     \* /api/fibers requests

Threads == {"t1", "t2"}

NoDrag == 0 - 1     \* dragIndex === null

\* the Fiber record with this id
FiberOf(id) == CHOOSE fb \in FiberPool : fb.id = id

\* the body /api/fibers?thread=param answers with
ServerFibers(param) ==
  CASE param = "t1" -> <<FiberOf("4"), FiberOf("1"), FiberOf("2")>>
    [] param = "t2" -> <<FiberOf("3"), FiberOf("4")>>
    [] OTHER -> <<FiberOf("3")>>

\* the search texts typed
Queries == { <<>>, <<"a", "B">>, <<"b", "a">> }

\* what a place of an array holds after undefined was spliced into it
UndefinedFiber == [id |-> Undefined]

\* const filtered = filterFibers(fibers, filter)
Filtered(v) == filterFibers(v.fibers, v.filter).ret

\* array.splice(start, 0, item), start from 0
SpliceIn(array, start, item) ==
  LET at == IF start > Len(array) THEN Len(array) ELSE start
  IN  SubSeq(array, 1, at) \o <<item>> \o SubSeq(array, at + 1, Len(array))

\* array.splice(start, 1), start from 0: the array left and the element
\* removed, undefined beyond the end
SpliceOut(array, start) ==
  IF start < Len(array)
    THEN [array |-> SubSeq(array, 1, start) \o SubSeq(array, start + 2, Len(array)),
          removed |-> array[start + 1]]
    ELSE [array |-> array, removed |-> UndefinedFiber]

\* onDrop(idx): the component after it and the PATCH request it sends
onDrop(v, idx) ==
  IF v.dragIndex = NoDrag \/ v.dragIndex = idx
    THEN [viewer |-> v, patch |-> <<>>]
    ELSE LET cut == SpliceOut(v.fibers, v.dragIndex)
             newOrder == SpliceIn(cut.array, idx, cut.removed)
         IN  [viewer |-> [v EXCEPT !.fibers = newOrder, !.dragIndex = NoDrag,
                                   !.crashed = cut.removed = UndefinedFiber],
              patch |-> IF v.selectedThread # Null
                          THEN <<[thread |-> v.selectedThread,
                                  order |-> [k \in 1..Len(newOrder) |-> newOrder[k].id]]>>
                          ELSE <<>>]

\* const param = selectedThread || 'none'
ParamOf(selectedThread) ==
  IF selectedThread = Null THEN "none" ELSE selectedThread

\* the component is mounted and its effect has sent the first request
ViewerInit ==
  /\ viewer = [fibers |-> <<>>, filter |-> <<>>, selectedThread |-> Null,
               dragIndex |-> NoDrag, crashed |-> FALSE]
  /\ fetchLog = <<[param |-> ParamOf(Null), state |-> "pending"]>>
  /\ viewEvent = [op |-> "mount", dragged |-> UndefinedFiber]
  /\ AllIdleBut("viewer")

\* setSelectedThread(t), and the effect of the next render sends a request
SelectThread(t) ==
  /\ ~viewer.crashed
  /\ t # viewer.selectedThread
  /\ Len(fetchLog) < MaxFetches
  /\ viewer' = [viewer EXCEPT !.selectedThread = t]
  /\ fetchLog' = Append(fetchLog, [param |-> ParamOf(t), state |-> "pending"])
  /\ viewEvent' = [op |-> "select", dragged |-> viewEvent.dragged]
  /\ UnchangedBut("viewer")

\* setFilter(e.target.value)
SetFilter(q) ==
  /\ ~viewer.crashed
  /\ q # viewer.filter
  /\ viewer' = [viewer EXCEPT !.filter = q]
  /\ viewEvent' = [op |-> "filter", dragged |-> viewEvent.dragged]
  /\ UNCHANGED fetchLog
  /\ UnchangedBut("viewer")

\* request id is answered and its body read: .then(setFibers)
FibersArrive(id) ==
  /\ ~viewer.crashed
  /\ id \in DOMAIN fetchLog
  /\ fetchLog[id].state = "pending"
  /\ viewer' = [viewer EXCEPT !.fibers = ServerFibers(fetchLog[id].param)]
  /\ fetchLog' = [fetchLog EXCEPT ![id].state = "resolved"]
  /\ viewEvent' = [op |-> "arrive", id |-> id, dragged |-> viewEvent.dragged]
  /\ UnchangedBut("viewer")

\* request id fails, at fetch or at r.json(): .catch(() => setFibers([]))
FibersFail(id) ==
  /\ ~viewer.crashed
  /\ id \in DOMAIN fetchLog
  /\ fetchLog[id].state = "pending"
  /\ viewer' = [viewer EXCEPT !.fibers = <<>>]
  /\ fetchLog' = [fetchLog EXCEPT ![id].state = "rejected"]
  /\ viewEvent' = [op |-> "fail", id |-> id, dragged |-> viewEvent.dragged]
  /\ UnchangedBut("viewer")

\* onDragStart of the card shown at place i (the cards can be dragged when a
\* thread is selected)
DragStart(i) ==
  /\ ~viewer.crashed
  /\ viewer.selectedThread # Null
  /\ i < Len(Filtered(viewer))
  /\ viewer' = [viewer EXCEPT !.dragIndex = i]
  /\ viewEvent' = [op |-> "dragStart", dragged |-> Filtered(viewer)[i + 1]]
  /\ UNCHANGED fetchLog
  /\ UnchangedBut("viewer")

\* onDrop of the card shown at place idx
Drop(idx) ==
  /\ ~viewer.crashed
  /\ idx < Len(Filtered(viewer))
  /\ LET r == onDrop(viewer, idx)
     IN  /\ viewer' = r.viewer
         /\ viewEvent' = [op |-> "drop", idx |-> idx, pre |-> viewer,
                          shown |-> Filtered(viewer), patch |-> r.patch,
                          dragged |-> viewEvent.dragged]
  /\ UNCHANGED fetchLog
  /\ UnchangedBut("viewer")

ViewerNext ==
  \/ \E t \in Threads \cup {Null} : SelectThread(t)
  \/ \E q \in Queries : SetFilter(q)
  \/ \E id \in 1..MaxFetches : FibersArrive(id)
  \/ \E id \in 1..MaxFetches : FibersFail(id)
  \/ \E i \in 0..(MaxList - 1) : DragStart(i)
  \/ \E idx \in 0..(MaxList - 1) : Drop(idx)

SpecViewer == ViewerInit /\ [][ViewerNext]_vars

\* the list without the fiber
Except(list, fb) ==
  LET Other(x) == x # fb
  IN  SelectSeq(list, Other)

\* the place of the fiber in the list
PlaceOf(list, fb) == CHOOSE k \in 1..Len(list) : list[k] = fb

\* C27: a drop moves the fiber the drag started on to the place of the card
\* it is dropped on and leaves the order of the others, under every search
\* text; a drop without a drag, or on the card dragged, changes nothing.
C27_DropMovesDragged ==
  viewEvent.op = "drop" =>
    LET before == viewEvent.pre
        target == viewEvent.shown[viewEvent.idx + 1]
    IN  IF before.dragIndex = NoDrag \/ before.dragIndex = viewEvent.idx
          THEN viewer.fibers = before.fibers
          ELSE /\ viewer.fibers[PlaceOf(before.fibers, target)] = viewEvent.dragged
               /\ Except(viewer.fibers, viewEvent.dragged)
                    = Except(before.fibers, viewEvent.dragged)

\* (under a search text, the drop has moved a card that was not the one
\* dragged: the one dragged is where it was)
C27_OtherCardMoved ==
  /\ viewEvent.op = "drop"
  /\ viewEvent.pre.filter # <<>>
  /\ viewEvent.pre.dragIndex # NoDrag
  /\ viewEvent.dragged = viewEvent.shown[viewEvent.pre.dragIndex + 1]
  /\ viewer.fibers # viewEvent.pre.fibers
  /\ PlaceOf(viewer.fibers, viewEvent.dragged)
       = PlaceOf(viewEvent.pre.fibers, viewEvent.dragged)

IdsOf(list) == { list[k].id : k \in 1..Len(list) }

\* C28: once every /api/fibers request has settled, the stored fibers are
\* those of the answer for the selected thread, or none if that request
\* failed.
C28_CurrentThreadShown ==
  (/\ ~viewer.crashed
   /\ \A k \in 1..Len(fetchLog) : fetchLog[k].state # "pending") =>
    IdsOf(viewer.fibers) =
      IF fetchLog[Len(fetchLog)].state = "rejected" THEN {}
      ELSE IdsOf(ServerFibers(ParamOf(viewer.selectedThread)))

\* (all requests settled, thread t1 selected and its request answered, and
\* the fibers stored are those of the request sent before)
C28_StaleList ==
  /\ Len(fetchLog) = 2
  /\ fetchLog[1].state = "resolved"
  /\ fetchLog[2].state = "resolved"
  /\ viewer.selectedThread = "t1"
  /\ viewer.fibers = ServerFibers("none")

\* ======================================================= CoAuthorPanel
\* CoAuthorPanel: `panel` holds the state files, path and blocks (an array of
\* references to Block objects, which updateBlock changes in place) and the
\* Block objects made so far; `coCalls` the requests in the order they were
\* sent, each with what its handler has closed over; `saved` the body of the
\* last save.  A text is the sequence of its lines and a line the sequence of
\* its characters.
MaxCalls == 4       \* requests, the first for the list of documents

\* the documents the server holds, by path
Docs == {"a.md", "b.md"}

Content(p) ==
  CASE p = "a.md" -> << <<"#", "#", " ", "A">>, <<"a">>, <<>>,
                        <<"#", "#", " ", "B">>, <<"b">> >>
    [] p = "b.md" -> << <<>>, <<"#", "#", " ", "C">>, <<"c">> >>

\* the texts typed into a block, and the texts /api/coauthor/rewrite answers
EditTexts == { << <<"x">> >> }
RewriteTexts == { << <<"r">> >> }

\* the line starts with "## "
StartsSection(line) ==
  /\ Len(line) >= 3
  /\ SubSeq(line, 1, 3) = <<"#", "#", " ">>

\* content.split(/\n(?=## )/g): a part ends at a line break that "## "
\* follows
RECURSIVE SplitSections(_, _)
SplitSections(content, k) ==
  IF k > Len(content) THEN <<>>
  ELSE LET rest == SplitSections(content, k + 1)
       IN  IF k < Len(content) /\ ~StartsSection(content[k + 1])
             THEN <<(<<content[k]>> \o rest[1])>> \o Tail(rest)
             ELSE <<(<<content[k]>>)>> \o rest

EmptyString == << <<>> >>

\* String.prototype.trim, for texts without blanks at the ends of a line
RECURSIVE trim(_)
trim(t) ==
  IF t = EmptyString THEN t
  ELSE IF t[1] = <<>> THEN trim(Tail(t))
  ELSE IF t[Len(t)] = <<>> THEN trim(SubSeq(t, 1, Len(t) - 1))
  ELSE t

\* d.content.split(/\n(?=## )/g).filter(Boolean)
\*   .map(t => ({ before: t.trim(), after: t.trim() }))
BlocksOf(content) ==
  LET Truthy(t) == t # EmptyString
      parts == SelectSeq(SplitSections(content, 1), Truthy)
  IN  [k \in 1..Len(parts) |-> [before |-> trim(parts[k]), after |-> trim(parts[k])]]

\* the array blocks with the objects it refers to
Deref(heapOf, blocks) == [k \in 1..Len(blocks) |-> heapOf[blocks[k]]]

\* updateBlock(i, text) of a render whose state blocks was `blocks`:
\* copy = [...blocks]; copy[i].after = text; setBlocks(copy)
updateBlock(p, blocks, i, text) ==
  [p EXCEPT !.blocks = blocks,
            !.objects = [@ EXCEPT ![blocks[i + 1]].after = text]]

\* the handler of a loadFile response: setBlocks(parts.map(...)); setPath(p)
loaded(p, path, content) ==
  LET made == BlocksOf(content)
      base == Len(p.objects)
  IN  [p EXCEPT !.blocks = [k \in 1..Len(made) |-> base + k],
                !.objects = @ \o made,
                !.path = path]

CoInit ==
  /\ panel = [files |-> <<>>, path |-> "", blocks |-> <<>>, objects |-> <<>>]
  /\ coCalls = <<[kind |-> "docs", state |-> "pending"]>>
  /\ saved = <<>>
  /\ AllIdleBut("panel")

Pending(id) ==
  /\ id \in DOMAIN coCalls
  /\ coCalls[id].state = "pending"

Settle(id) == [coCalls EXCEPT ![id].state = "settled"]

\* /api/coauthor/docs is answered: .then(setFiles), or fails:
\* .catch(() => setFiles([]))
DocsArrive(ok) ==
  /\ Pending(1)
  /\ panel' = [panel EXCEPT !.files = IF ok THEN <<"a.md", "b.md">> ELSE <<>>]
  /\ coCalls' = Settle(1)
  /\ UNCHANGED saved
  /\ UnchangedBut("panel")

\* the select changes: loadFile(p) sends its request
LoadFile(p) ==
  /\ Len(coCalls) < MaxCalls
  /\ \E k \in 1..Len(panel.files) : panel.files[k] = p
  /\ coCalls' = Append(coCalls, [kind |-> "load", state |-> "pending", p |-> p])
  /\ UNCHANGED <<panel, saved>>
  /\ UnchangedBut("panel")

\* the request of loadFile is answered with the document
LoadArrives(id) ==
  /\ Pending(id)
  /\ coCalls[id].kind = "load"
  /\ panel' = loaded(panel, coCalls[id].p, Content(coCalls[id].p))
  /\ coCalls' = Settle(id)
  /\ UNCHANGED saved
  /\ UnchangedBut("panel")

\* a request of loadFile or rewriteBlock fails: nothing catches it
CallFails(id) ==
  /\ Pending(id)
  /\ coCalls[id].kind \in {"load", "rewrite"}
  /\ coCalls' = Settle(id)
  /\ UNCHANGED <<panel, saved>>
  /\ UnchangedBut("panel")

\* typing into the textarea of block i: updateBlock(i, e.target.value)
UpdateBlock(i, text) ==
  /\ i < Len(panel.blocks)
  /\ panel' = updateBlock(panel, panel.blocks, i, text)
  /\ UNCHANGED <<coCalls, saved>>
  /\ UnchangedBut("panel")

\* a click on Rewrite of block idx: rewriteBlock(idx) up to its await; it
\* has closed over the blocks of this render
RewriteBlock(idx) ==
  /\ Len(coCalls) < MaxCalls
  /\ idx < Len(panel.blocks)
  /\ coCalls' = Append(coCalls,
                       [kind |-> "rewrite", state |-> "pending", idx |-> idx,
                        blocks |-> panel.blocks,
                        text |-> panel.objects[panel.blocks[idx + 1]].after])
  /\ UNCHANGED <<panel, saved>>
  /\ UnchangedBut("panel")

\* the rewrite request is answered: updateBlock(idx, data.text) of the
\* render rewriteBlock was called in
RewriteArrives(id, text) ==
  /\ Pending(id)
  /\ coCalls[id].kind = "rewrite"
  /\ panel' = updateBlock(panel, coCalls[id].blocks, coCalls[id].idx, text)
  /\ coCalls' = Settle(id)
  /\ UNCHANGED saved
  /\ UnchangedBut("panel")

\* a click on Save (shown when path is not empty): the body it posts
Save ==
  /\ panel.path # ""
  /\ saved' = <<[path |-> panel.path,
                 blocks |-> Deref(panel.objects, panel.blocks)]>>
  /\ UNCHANGED <<panel, coCalls>>
  /\ UnchangedBut("panel")

PanelNext ==
  \/ \E ok \in BOOLEAN : DocsArrive(ok)
  \/ \E p \in Docs : LoadFile(p)
  \/ \E id \in 1..MaxCalls : LoadArrives(id)
  \/ \E id \in 1..MaxCalls : CallFails(id)
  \/ \E i \in 0..1, text \in EditTexts : UpdateBlock(i, text)
  \/ \E idx \in 0..1 : RewriteBlock(idx)
  \/ \E id \in 1..MaxCalls, text \in RewriteTexts : RewriteArrives(id, text)
  \/ Save

SpecPanel == CoInit /\ [][PanelNext]_vars

Blocks == Deref(panel.objects, panel.blocks)

\* the blocks are those of the document at path, but for their after texts
BelongTo(blocks, path) ==
  LET own == IF path = "" THEN <<>> ELSE BlocksOf(Content(path))
  IN  /\ Len(blocks) = Len(own)
      /\ \A k \in 1..Len(blocks) : blocks[k].before = own[k].before

\* C29: the blocks in state, and the blocks a save sends, are those of the
\* document named by the path they go with, and the before text of a block
\* is never changed.
C29_BlocksOfPath ==
  /\ BelongTo(Blocks, panel.path)
  /\ \A k \in 1..Len(saved) : BelongTo(saved[k].blocks, saved[k].path)
  /\ \A o \in 1..Len(panel.objects) :
       \E p \in Docs : \E k \in 1..Len(BlocksOf(Content(p))) :
         panel.objects[o].before = BlocksOf(Content(p))[k].before

\* (a save has sent the path of b.md with the blocks of a.md)
C29_SavedMixed ==
  /\ saved # <<>>
  /\ saved[1].path = "b.md"
  /\ BelongTo(saved[1].blocks, "a.md")

====
